---- MODULE Spec2Model ----
(***************************************************************************)
(* PS/2 host gateware of the Glasgow "ps2-host" applet                     *)
(* (software/glasgow/applet/interface/ps2_host/__init__.py).               *)
(*                                                                         *)
(* One Tick is one rising edge of the system clock: every register of      *)
(* PS2Bus and PS2HostSubtarget takes its next value from the values all    *)
(* signals had before the edge.  Signals are 0/1 integers, a frame is the  *)
(* 11-bit integer raw_bits() of the Record (start is bit 0, data bits 1..8,*)
(* parity bit 9, stop bit 10).                                             *)
(*                                                                         *)
(* The environment is the peripheral on the two open-drain pins (it plays  *)
(* an 11-bit data script, one bit per clock pulse it generates, keeping    *)
(* each clock level MinHold ticks or longer) and the host program          *)
(* PS2HostApplet.interact on the far side of the two FIFOs.  SpecBus       *)
(* drives the two pins of PS2Bus alone in every possible way.              *)
(***************************************************************************)
EXTENDS Integers, Sequences, FiniteSets

\* ------------------------------------------------------------------ bounds
\* largest request_cyc a build is given (the applet passes sys_clk_freq * 60e-6)
MaxRequestCyc == 2
\* depth of the inbound FIFO
InDepth == 1
\* ticks a conforming peripheral keeps a clock level before changing it
MinHold == 3
\* scripts the peripheral plays in one run
MaxScripts == 2
\* frames the peripheral answers one command with
MaxResp == 2
\* ticks after the peripheral's last clock edge by which the core has settled
SettleTicks == 3


\* ------------------------------------------------------ program constants
\* largest value of the 8-bit data field of frame_layout
MaxData == 255
\* pulses the history variables count up to: one more than a frame has bits
MaxPulses == 12

\* ------------------------------------------------- values of the environment
\* the command bytes PS2HostApplet.interact writes, in order
Commands == <<244, 234, 235>>
\* bytes the modelled peripheral answers with (0xFA acknowledge, 0xAB identity)
RespBytes == {250, 171}

VARIABLES
    \* PS2Bus
    clock_m, data_m,      \* first stage of each MultiReg
    clock_i, data_i,      \* synchronized inputs (MultiReg outputs)
    clock_o, data_o,      \* open-drain outputs (0 pulls the line low)
    clock_s, clock_r, sample, setup,
    \* PS2HostSubtarget
    request_cyc,          \* constructor argument, fixed for a run
    rx_state, rx_frame, rx_bitno,
    tx_state, tx_timer, tx_frame, tx_bitno,
    in_we, in_din, out_re, \* the combinatorial FIFO strobes of the last tick
    \* FIFOs and host program
    in_fifo, out_fifo, host_pc, host_need,
    \* peripheral
    dev_clock, dev_script, dev_pos, dev_hold, dev_count,
    \* history variables (observers, read by no operation)
    g_ci1, g_ci2, g_ci3,  \* clock_i one, two and three ticks ago
    g_we, g_byte,         \* in_fifo writes since the first clock of the script
    g_conf,               \* that script is a frame clocked in on an idle bus
    g_quiet,              \* ticks since the peripheral finished its script
    g_stalled,            \* rx_fsm has waited in FRAME for in_fifo space
    g_dropped,            \* rx_fsm has discarded a frame that failed the check
    g_re, g_txwe,         \* FIFO strobes since tx_fsm last left IDLE
    g_ackseen,            \* ACK saw its sample pulse with data_i low
    g_naks,               \* rejected transmissions of the byte at the head
    g_low,                \* ticks clock_o has been 0 in a row
    sh,                   \* a tx_fsm restarted from reset at every transmit
    g_respok, g_resp, g_got, \* since the last acknowledged command: frames the
                          \* peripheral sent in order, bytes written to in_fifo
    g_rxn, g_rxbits,      \* sample pulses rx_fsm took in BIT, the data_i values
                          \* they found (the k-th one is bit k)
    g_txn, g_txbits,      \* setup pulses tx_fsm took in BIT, the data_o values
                          \* they were answered with (the k-th one is bit k)
    g_latch,              \* out_fifo.dout when tx_fsm last left REQUEST
    g_high,               \* clock_i was 1 in a tick after the last transaction ended
    \* the frame codec on its own
    cd_pc, cd_d, cd_frame, cd_ok

busVars  == <<clock_m, data_m, clock_i, data_i, clock_s, clock_r, sample, setup>>
rxVars   == <<rx_state, rx_frame, rx_bitno>>
txVars   == <<tx_state, tx_timer, tx_frame, tx_bitno, clock_o, data_o>>
strobes  == <<in_we, in_din, out_re>>
hostVars == <<host_pc, host_need>>
devVars  == <<dev_clock, dev_script, dev_pos, dev_hold, dev_count>>
coreVars == <<busVars, rxVars, txVars, strobes, request_cyc>>
obsVars  == <<g_ci1, g_ci2, g_ci3, g_we, g_byte, g_conf, g_quiet, g_stalled, g_dropped, g_re,
              g_txwe, g_ackseen, g_naks, g_low, sh, g_rxn, g_rxbits, g_txn, g_txbits,
              g_latch, g_high>>
logVars  == <<g_respok, g_resp, g_got>>
bitVars  == <<g_rxn, g_rxbits, g_txn, g_txbits, g_latch, g_high>>
codecVars == <<cd_pc, cd_d, cd_frame, cd_ok>>

\* ----------------------------------------------------------- bit helpers
Bit(v, k) == (v \div (2 ^ k)) % 2
Not(b) == 1 - b
And(a, b) == a * b

RECURSIVE bits_for(_)
bits_for(n) == IF n < 2 THEN 1 ELSE 1 + bits_for(n \div 2)

\* reduce(operator.xor, data) over the 8 one-bit slices of data, left to right
RECURSIVE xor_from(_, _, _)
xor_from(acc, data, k) ==
    IF k = 8 THEN acc ELSE xor_from((acc + Bit(data, k)) % 2, data, k + 1)
reduce_xor(data) == xor_from(Bit(data, 0), data, 1)

\* ------------------------------------------------------------ frame_layout
frame_start(frame)  == Bit(frame, 0)
frame_data(frame)   == (frame \div 2) % 256
frame_parity(frame) == Bit(frame, 9)
frame_stop(frame)   == Bit(frame, 10)
raw_bits(start, data, parity, stop) == start + 2 * data + 512 * parity + 1024 * stop

\* a check that forgets the parity bit
check_frame_noparity(frame) ==
    /\ frame_start(frame) = 0
    /\ frame_stop(frame) = 1

check_frame(frame) ==
    /\ frame_start(frame) = 0
    /\ frame_parity(frame) = Not(reduce_xor(frame_data(frame)))
    /\ frame_stop(frame) = 1

\* a prepare_frame that leaves out the complement: even parity
prepare_frame_even(frame, data) == raw_bits(0, data, reduce_xor(data), 1)

prepare_frame(frame, data) == raw_bits(0, data, Not(reduce_xor(data)), 1)

\* ------------------------------------------------------------------ PS2Bus
\* pads.clock_t / pads.data_t: the pin reads low when this side enables its
\* driver (o = 0, oe = ~clock_o) or the peripheral pulls the line low
pad_i(out, dev) == IF out = 0 THEN 0 ELSE dev

\* MultiReg(pads.x_t.i, x_i, reset=1): two registers, s = <<first stage, output>>
MultiReg(pad, s) == <<pad, s[1]>>

\* a detector that follows the level of the clock instead of its edges
bus_sync_level(ci, b) ==
    [clock_s |-> ci,
     clock_r |-> b.clock_s,
     sample  |-> Not(b.clock_s),
     setup   |-> b.clock_s]

\* the edge detector's four registers, b = [clock_s, clock_r, sample, setup]
bus_sync(ci, b) ==
    [clock_s |-> ci,
     clock_r |-> b.clock_s,
     sample  |-> And(b.clock_r, Not(b.clock_s)),
     setup   |-> And(Not(b.clock_r), b.clock_s)]

\* ------------------------------------------------------------------ rx_fsm
\* rx = [state, frame, bitno]; the result adds the strobes we, din of the tick
rx_keep(rx) == [state |-> rx.state, frame |-> rx.frame, bitno |-> rx.bitno,
                we |-> 0, din |-> 0]

\* a receiver that does not look at the transmitter before it starts
rx_IDLE_eager(rx, tx_ongoing_IDLE, ci) ==
    IF ci = 0
    THEN [rx_keep(rx) EXCEPT !.state = "BIT"]
    ELSE rx_keep(rx)

rx_IDLE(rx, tx_ongoing_IDLE, ci) ==
    IF tx_ongoing_IDLE /\ ci = 0
    THEN [rx_keep(rx) EXCEPT !.state = "BIT"]
    ELSE rx_keep(rx)

\* a receiver that ends the frame one bit early
rx_BIT_short(rx, smp, di) ==
    IF smp = 1
    THEN [rx_keep(rx) EXCEPT
            !.frame = (rx.frame \div 2) + 1024 * di,
            !.bitno = IF rx.bitno = 9 THEN 0 ELSE (rx.bitno + 1) % 16,
            !.state = IF rx.bitno = 9 THEN "FRAME" ELSE "BIT"]
    ELSE rx_keep(rx)

\* a receiver that does not clear its bit counter at the end of a frame
rx_BIT_noreset(rx, smp, di) ==
    IF smp = 1
    THEN [rx_keep(rx) EXCEPT
            !.frame = (rx.frame \div 2) + 1024 * di,
            !.bitno = (rx.bitno + 1) % 16,
            !.state = IF rx.bitno = 10 THEN "FRAME" ELSE "BIT"]
    ELSE rx_keep(rx)

\* a receiver that shifts the new bit in at the low end
rx_BIT_msb(rx, smp, di) ==
    IF smp = 1
    THEN [rx_keep(rx) EXCEPT
            !.frame = (2 * rx.frame + di) % 2048,
            !.bitno = IF rx.bitno = 10 THEN 0 ELSE (rx.bitno + 1) % 16,
            !.state = IF rx.bitno = 10 THEN "FRAME" ELSE "BIT"]
    ELSE rx_keep(rx)

rx_BIT(rx, smp, di) ==
    IF smp = 1
    THEN [rx_keep(rx) EXCEPT
            !.frame = (rx.frame \div 2) + 1024 * di,
            !.bitno = IF rx.bitno = 10 THEN 0 ELSE (rx.bitno + 1) % 16,
            !.state = IF rx.bitno = 10 THEN "FRAME" ELSE "BIT"]
    ELSE rx_keep(rx)

\* a receiver that discards a good frame when in_fifo has no space
rx_FRAME_drop(rx, writable) ==
    IF check_frame(rx.frame) /\ writable
    THEN [rx_keep(rx) EXCEPT !.din = frame_data(rx.frame), !.we = 1,
                             !.state = "IDLE-WAIT"]
    ELSE [rx_keep(rx) EXCEPT !.state = "IDLE-WAIT"]

rx_FRAME(rx, writable) ==
    IF check_frame(rx.frame)
    THEN IF writable
         THEN [rx_keep(rx) EXCEPT !.din = frame_data(rx.frame), !.we = 1,
                                  !.state = "IDLE-WAIT"]
         ELSE rx_keep(rx)
    ELSE [rx_keep(rx) EXCEPT !.state = "IDLE-WAIT"]

\* a receiver that does not wait for the clock to return high
rx_IDLE_WAIT_now(rx, ci) == [rx_keep(rx) EXCEPT !.state = "IDLE"]

rx_IDLE_WAIT(rx, ci) ==
    IF ci = 1 THEN [rx_keep(rx) EXCEPT !.state = "IDLE"] ELSE rx_keep(rx)

\* in = [clock_i, data_i, sample, setup, readable, dout, writable]
rx_fsm(rx, tx_ongoing_IDLE, in) ==
    CASE rx.state = "IDLE"      -> rx_IDLE(rx, tx_ongoing_IDLE, in.clock_i)
      [] rx.state = "BIT"       -> rx_BIT(rx, in.sample, in.data_i)
      [] rx.state = "FRAME"     -> rx_FRAME(rx, in.writable)
      [] rx.state = "IDLE-WAIT" -> rx_IDLE_WAIT(rx, in.clock_i)

\* ------------------------------------------------------------------ tx_fsm
\* tx = [state, timer, frame, bitno, clock_o, data_o]; the result adds re
tx_keep(tx) == [state |-> tx.state, timer |-> tx.timer, frame |-> tx.frame,
                bitno |-> tx.bitno, clock_o |-> tx.clock_o, data_o |-> tx.data_o,
                re |-> 0]

\* tx_timer = Signal(max=request_cyc)
tx_timer_mod(rc) == 2 ^ bits_for(rc - 1)

\* a transmitter that loads the timer with request_cyc instead of request_cyc - 1
tx_IDLE_long(tx, rx_ongoing_IDLE, ci, readable, rc) ==
    IF rx_ongoing_IDLE /\ ci = 1 /\ readable
    THEN [tx_keep(tx) EXCEPT !.clock_o = 0, !.timer = rc % tx_timer_mod(rc),
                             !.state = "REQUEST"]
    ELSE tx_keep(tx)

\* a transmitter that does not look whether out_fifo holds a byte
tx_IDLE_blind(tx, rx_ongoing_IDLE, ci, readable, rc) ==
    IF rx_ongoing_IDLE /\ ci = 1
    THEN [tx_keep(tx) EXCEPT !.clock_o = 0, !.timer = rc - 1, !.state = "REQUEST"]
    ELSE tx_keep(tx)

tx_IDLE(tx, rx_ongoing_IDLE, ci, readable, rc) ==
    IF rx_ongoing_IDLE /\ ci = 1 /\ readable
    THEN [tx_keep(tx) EXCEPT !.clock_o = 0, !.timer = rc - 1, !.state = "REQUEST"]
    ELSE tx_keep(tx)

\* a transmitter that takes the byte out of out_fifo when it latches it
tx_REQUEST_pop(tx, dout, rc) ==
    LET dec == [tx_keep(tx) EXCEPT !.timer = (tx.timer - 1) % tx_timer_mod(rc)]
    IN  IF tx.timer = 0
        THEN [dec EXCEPT !.clock_o = 1, !.data_o = 0,
                         !.frame = prepare_frame(tx.frame, dout),
                         !.re = 1,
                         !.state = "BIT"]
        ELSE dec

\* a transmitter that does not release the clock at the end of the request
tx_REQUEST_hold(tx, dout, rc) ==
    LET dec == [tx_keep(tx) EXCEPT !.timer = (tx.timer - 1) % tx_timer_mod(rc)]
    IN  IF tx.timer = 0
        THEN [dec EXCEPT !.data_o = 0,
                         !.frame = prepare_frame(tx.frame, dout),
                         !.state = "BIT"]
        ELSE dec

tx_REQUEST(tx, dout, rc) ==
    LET dec == [tx_keep(tx) EXCEPT !.timer = (tx.timer - 1) % tx_timer_mod(rc)]
    IN  IF tx.timer = 0
        THEN [dec EXCEPT !.clock_o = 1, !.data_o = 0,
                         !.frame = prepare_frame(tx.frame, dout),
                         !.state = "BIT"]
        ELSE dec

\* a transmitter that does not clear its bit counter at the end of a frame
tx_BIT_noreset(tx, stp) ==
    IF stp = 1
    THEN [tx_keep(tx) EXCEPT
            !.data_o = Bit(tx.frame, 0),
            !.frame  = tx.frame \div 2,
            !.bitno  = (tx.bitno + 1) % 16,
            !.state  = IF tx.bitno = 10 THEN "ACK" ELSE "BIT"]
    ELSE tx_keep(tx)

\* a transmitter that sends the frame from its high end
tx_BIT_msb(tx, stp) ==
    IF stp = 1
    THEN [tx_keep(tx) EXCEPT
            !.data_o = Bit(tx.frame, 10),
            !.frame  = (2 * tx.frame) % 2048,
            !.bitno  = IF tx.bitno = 10 THEN 0 ELSE (tx.bitno + 1) % 16,
            !.state  = IF tx.bitno = 10 THEN "ACK" ELSE "BIT"]
    ELSE tx_keep(tx)

tx_BIT(tx, stp) ==
    IF stp = 1
    THEN [tx_keep(tx) EXCEPT
            !.data_o = Bit(tx.frame, 0),
            !.frame  = tx.frame \div 2,
            !.bitno  = IF tx.bitno = 10 THEN 0 ELSE (tx.bitno + 1) % 16,
            !.state  = IF tx.bitno = 10 THEN "ACK" ELSE "BIT"]
    ELSE tx_keep(tx)

\* a transmitter that never takes the byte out of out_fifo
tx_ACK_nore(tx, smp, di) ==
    IF smp = 1
    THEN [tx_keep(tx) EXCEPT !.state = "IDLE-WAIT"]
    ELSE tx_keep(tx)

\* a transmitter that takes the byte out of out_fifo whatever the acknowledge bit
tx_ACK_pop(tx, smp, di) ==
    IF smp = 1
    THEN [tx_keep(tx) EXCEPT !.re = 1, !.state = "IDLE-WAIT"]
    ELSE tx_keep(tx)

\* a transmitter that gives up waiting for the acknowledge clock
tx_ACK_anytick(tx, smp, di) ==
    [tx_keep(tx) EXCEPT !.re = IF smp = 1 /\ di = 0 THEN 1 ELSE 0,
                        !.state = "IDLE-WAIT"]

tx_ACK(tx, smp, di) ==
    IF smp = 1
    THEN [tx_keep(tx) EXCEPT !.re = IF di = 0 THEN 1 ELSE 0, !.state = "IDLE-WAIT"]
    ELSE tx_keep(tx)

tx_IDLE_WAIT(tx, ci) ==
    IF ci = 1 THEN [tx_keep(tx) EXCEPT !.state = "IDLE"] ELSE tx_keep(tx)

tx_fsm(tx, rx_ongoing_IDLE, in, rc) ==
    CASE tx.state = "IDLE"      -> tx_IDLE(tx, rx_ongoing_IDLE, in.clock_i, in.readable, rc)
      [] tx.state = "REQUEST"   -> tx_REQUEST(tx, in.dout, rc)
      [] tx.state = "BIT"       -> tx_BIT(tx, in.setup)
      [] tx.state = "ACK"       -> tx_ACK(tx, in.sample, in.data_i)
      [] tx.state = "IDLE-WAIT" -> tx_IDLE_WAIT(tx, in.clock_i)

\* ------------------------------------------------------------------- FIFOs
\* out_fifo.readable / out_fifo.dout / out_fifo.re, in_fifo.writable / din / we
fifo_readable(q) == Len(q) > 0
fifo_dout(q)     == IF Len(q) > 0 THEN Head(q) ELSE 0
fifo_read(q, re) == IF re = 1 /\ Len(q) > 0 THEN Tail(q) ELSE q
fifo_writable(q) == Len(q) < InDepth
fifo_write(q, we, din) == IF we = 1 THEN Append(q, din) ELSE q

\* -------------------------------------------------------------- peripheral
\* The peripheral plays an 11-bit script on the data line, one bit per clock
\* pulse it generates: a frame towards the host, or, answering a request to
\* send, released data with the acknowledge bit (0) or without it (line left
\* high) in the 11th clock.  It keeps every clock level MinHold ticks, starts a
\* frame only on a released bus, gives up a frame when it finds the clock
\* inhibited, and may stop clocking for good at any point.
DevFlip(f, k) == IF Bit(f, k) = 1 THEN f - 2 ^ k ELSE f + 2 ^ k
GoodFrames == {prepare_frame(0, b) : b \in RespBytes}
BadFrames  == {DevFlip(prepare_frame(0, 250), k) : k \in {0, 9, 10}}
AckScript  == raw_bits(1, 255, 1, 0)
NakScript  == raw_bits(1, 255, 1, 1)
\* bits of a frame (frame_layout); a script position past them: no script
DevIdlePos == 11

dev_data == IF dev_pos < DevIdlePos THEN Bit(dev_script, dev_pos) ELSE 1
DevSending == dev_pos < DevIdlePos /\ dev_script \notin {AckScript, NakScript}
HoldMore(h) == IF h < MinHold THEN h + 1 ELSE MinHold

DevHold ==
    /\ dev_hold' = HoldMore(dev_hold)
    /\ UNCHANGED <<dev_clock, dev_script, dev_pos, dev_count>>

DevStartOf(scripts, cap) ==
    /\ dev_pos = DevIdlePos /\ dev_count < cap
    /\ clock_o = 1 /\ data_o = 1
    /\ \E s \in scripts : dev_script' = s
    /\ dev_pos' = 0 /\ dev_count' = dev_count + 1
    /\ dev_hold' = HoldMore(dev_hold)
    /\ UNCHANGED dev_clock

DevListenOf(scripts, cap) ==
    /\ dev_pos = DevIdlePos /\ dev_count < cap
    /\ clock_o = 1 /\ data_o = 0
    /\ \E s \in scripts : dev_script' = s
    /\ dev_pos' = 0 /\ dev_count' = dev_count + 1
    /\ dev_hold' = HoldMore(dev_hold)
    /\ UNCHANGED dev_clock

DevStart  == DevStartOf(GoodFrames \cup BadFrames, MaxScripts)
DevListen == DevListenOf({AckScript, NakScript}, MaxScripts)

DevFall ==
    /\ dev_pos < DevIdlePos /\ dev_clock = 1 /\ dev_hold = MinHold
    /\ clock_o = 1
    /\ dev_clock' = 0 /\ dev_hold' = 1
    /\ UNCHANGED <<dev_script, dev_pos, dev_count>>

DevRise ==
    /\ dev_clock = 0 /\ dev_hold = MinHold
    /\ dev_clock' = 1 /\ dev_hold' = 1
    /\ dev_pos' = dev_pos + 1
    /\ UNCHANGED <<dev_script, dev_count>>

DevAbort ==
    /\ DevSending /\ dev_clock = 1 /\ clock_o = 0
    /\ dev_pos' = DevIdlePos
    /\ dev_hold' = HoldMore(dev_hold)
    /\ UNCHANGED <<dev_clock, dev_script, dev_count>>

\* ------------------------------------------------------------ one clock edge
Inputs ==
    [clock_i  |-> clock_i, data_i |-> data_i, sample |-> sample, setup |-> setup,
     readable |-> fifo_readable(out_fifo), dout |-> fifo_dout(out_fifo),
     writable |-> fifo_writable(in_fifo)]
RxNow == [state |-> rx_state, frame |-> rx_frame, bitno |-> rx_bitno]
TxNow == [state |-> tx_state, timer |-> tx_timer, frame |-> tx_frame,
          bitno |-> tx_bitno, clock_o |-> clock_o, data_o |-> data_o]
BusNow == [clock_s |-> clock_s, clock_r |-> clock_r, sample |-> sample, setup |-> setup]
\* the registers after construction
TxReset == [state |-> "IDLE", timer |-> 0, frame |-> 0, bitno |-> 0,
            clock_o |-> 1, data_o |-> 1]

RxNext == rx_fsm(RxNow, tx_state = "IDLE", Inputs)
TxNext == tx_fsm(TxNow, rx_state = "IDLE", Inputs, request_cyc)

\* PS2Bus: both synchronizers and the edge detector, given the two pin levels
BusStep(pad_clock, pad_data) ==
    LET bsn == bus_sync(clock_i, BusNow)
        cmr == MultiReg(pad_clock, <<clock_m, clock_i>>)
        dmr == MultiReg(pad_data, <<data_m, data_i>>)
    IN  /\ clock_m' = cmr[1] /\ clock_i' = cmr[2]
        /\ data_m' = dmr[1] /\ data_i' = dmr[2]
        /\ clock_s' = bsn.clock_s /\ clock_r' = bsn.clock_r
        /\ sample' = bsn.sample /\ setup' = bsn.setup
        /\ g_ci1' = clock_i /\ g_ci2' = g_ci1 /\ g_ci3' = g_ci2

Core ==
    LET rxn == RxNext
        txn == TxNext
    IN  /\ BusStep(pad_i(clock_o, dev_clock), pad_i(data_o, dev_data))
        /\ rx_state' = rxn.state /\ rx_frame' = rxn.frame /\ rx_bitno' = rxn.bitno
        /\ tx_state' = txn.state /\ tx_timer' = txn.timer /\ tx_frame' = txn.frame
        /\ tx_bitno' = txn.bitno /\ clock_o' = txn.clock_o /\ data_o' = txn.data_o
        /\ in_we' = rxn.we /\ in_din' = rxn.din /\ out_re' = txn.re
        /\ in_fifo' = fifo_write(in_fifo, rxn.we, rxn.din)
        /\ out_fifo' = fifo_read(out_fifo, txn.re)
        /\ UNCHANGED <<request_cyc, hostVars, codecVars>>

\* the history variables over one clock edge; started: the peripheral begins a
\* script in this tick, firstfall: it pulls the clock low for the script's first bit
Cap(n, c) == IF n < c THEN n ELSE c
Observe(started, firstfall) ==
    LET rxn   == RxNext
        txn   == TxNext
        leave == tx_state = "IDLE" /\ txn.state # "IDLE"
        full  == rx_state = "FRAME" /\ check_frame(rx_frame) /\ ~fifo_writable(in_fifo)
    IN  /\ g_we' = IF firstfall THEN 0 ELSE Cap(g_we + rxn.we, 2)
        /\ g_byte' = IF firstfall THEN 0 ELSE IF rxn.we = 1 THEN rxn.din ELSE g_byte
        /\ g_conf' = IF started THEN FALSE
                     ELSE IF firstfall
                          THEN DevSending /\ rx_state = "IDLE" /\ tx_state = "IDLE"
                               /\ txn.state = "IDLE"
                          ELSE g_conf /\ txn.state = "IDLE" /\ ~full
        /\ g_quiet' = IF dev_pos = DevIdlePos /\ dev_pos' = DevIdlePos
                      THEN Cap(g_quiet + 1, SettleTicks) ELSE 0
        /\ g_stalled' = IF rxn.state = "BIT" THEN FALSE ELSE (g_stalled \/ full)
        /\ g_dropped' = (g_dropped \/ (rx_state = "FRAME" /\ ~check_frame(rx_frame)))
        /\ g_re' = IF leave THEN 0 ELSE Cap(g_re + txn.re, 2)
        /\ g_txwe' = IF leave THEN 0
                    ELSE IF tx_state # "IDLE" THEN Cap(g_txwe + rxn.we, 1) ELSE g_txwe
        /\ g_ackseen' = IF leave THEN FALSE
                        ELSE g_ackseen \/ (tx_state = "ACK" /\ sample = 1 /\ data_i = 0)
        /\ g_naks' = IF txn.re = 1 THEN 0
                     ELSE IF tx_state = "ACK" /\ sample = 1 /\ data_i = 1
                          THEN Cap(g_naks + 1, 2) ELSE g_naks
        /\ g_low' = IF txn.clock_o = 0 THEN Cap(g_low + 1, MaxRequestCyc + 2) ELSE 0
        /\ sh' = tx_fsm(IF tx_state = "IDLE" THEN TxReset ELSE sh,
                        rx_state = "IDLE", Inputs, request_cyc)
        /\ g_rxn' = IF rx_state = "IDLE" /\ rxn.state = "BIT" THEN 0
                    ELSE IF rx_state = "BIT" /\ sample = 1 THEN Cap(g_rxn + 1, MaxPulses)
                    ELSE g_rxn
        /\ g_rxbits' = IF rx_state = "IDLE" /\ rxn.state = "BIT" THEN 0
                       ELSE IF rx_state = "BIT" /\ sample = 1 /\ g_rxn < MaxPulses
                            THEN g_rxbits + data_i * (2 ^ g_rxn)
                       ELSE g_rxbits
        /\ g_txn' = IF tx_state = "REQUEST" /\ txn.state = "BIT" THEN 0
                    ELSE IF tx_state = "BIT" /\ setup = 1 THEN Cap(g_txn + 1, MaxPulses)
                    ELSE g_txn
        /\ g_txbits' = IF tx_state = "REQUEST" /\ txn.state = "BIT" THEN 0
                       ELSE IF tx_state = "BIT" /\ setup = 1 /\ g_txn < MaxPulses
                            THEN g_txbits + txn.data_o * (2 ^ g_txn)
                       ELSE g_txbits
        /\ g_latch' = IF tx_state = "REQUEST" /\ txn.state = "BIT"
                      THEN fifo_dout(out_fifo) ELSE g_latch
        /\ g_high' = IF (rx_state = "BIT" /\ rxn.state = "FRAME")
                        \/ (tx_state = "ACK" /\ txn.state = "IDLE-WAIT")
                     THEN FALSE ELSE (g_high \/ clock_i = 1)

\* the response log over one clock edge
IsPrefix(a, b) == Len(a) <= Len(b) /\ a = SubSeq(b, 1, Len(a))
Log(firstfall) ==
    LET rxn  == RxNext
        txn  == TxNext
        \* the peripheral pulls the clock low for the last bit of a frame
        done == DevSending /\ dev_pos = DevIdlePos - 1 /\ dev_clock = 1 /\ dev_clock' = 0
    IN  IF txn.re = 1
        THEN g_respok' = TRUE /\ g_resp' = <<>> /\ g_got' = <<>>
        ELSE /\ g_respok' = (/\ g_respok
                             /\ dev_pos' = DevIdlePos \/ ~DevSending \/ dev_pos' = 0 \/ g_conf'
                             /\ rx_state = "FRAME" => fifo_writable(in_fifo)
                             /\ Len(g_got) < MaxResp \/ rxn.we = 0)
             /\ g_resp' = IF done THEN Append(g_resp, frame_data(dev_script)) ELSE g_resp
             /\ g_got' = IF rxn.we = 1 /\ Len(g_got) < MaxResp
                         THEN Append(g_got, rxn.din) ELSE g_got

TickHold   == DevHold   /\ Core /\ Observe(FALSE, FALSE) /\ UNCHANGED logVars
TickStart  == DevStart  /\ Core /\ Observe(TRUE, FALSE) /\ UNCHANGED logVars
TickListen == DevListen /\ Core /\ Observe(TRUE, FALSE) /\ UNCHANGED logVars
TickFall   == DevFall   /\ Core /\ Observe(FALSE, dev_pos = 0) /\ UNCHANGED logVars
TickRise   == DevRise   /\ Core /\ Observe(FALSE, FALSE) /\ UNCHANGED logVars
TickAbort  == DevAbort  /\ Core /\ Observe(FALSE, FALSE) /\ UNCHANGED logVars

\* a peripheral that acknowledges every command and answers with good frames
RespHold   == DevHold /\ Core /\ Observe(FALSE, FALSE) /\ Log(FALSE)
RespListen == DevListenOf({AckScript}, MaxResp + 1)
              /\ Core /\ Observe(TRUE, FALSE) /\ Log(FALSE)
RespStart  == dev_count > 0 /\ DevStartOf(GoodFrames, MaxResp + 1)
              /\ Core /\ Observe(TRUE, FALSE) /\ Log(FALSE)
RespFall   == DevFall /\ Core /\ Observe(FALSE, dev_pos = 0) /\ Log(dev_pos = 0)
RespRise   == DevRise /\ Core /\ Observe(FALSE, FALSE) /\ Log(FALSE)
RespAbort  == DevAbort /\ Core /\ Observe(FALSE, FALSE) /\ Log(FALSE)

\* PS2Bus alone, its two pins driven in any way
BusTick ==
    /\ \E pad_clock \in {0, 1}, pad_data \in {0, 1} : BusStep(pad_clock, pad_data)
    /\ UNCHANGED <<rxVars, txVars, strobes, request_cyc, in_fifo, out_fifo,
                   hostVars, devVars, logVars>>
    /\ UNCHANGED <<g_we, g_byte, g_conf, g_quiet, g_stalled, g_dropped, g_re,
                   g_txwe, g_ackseen, g_naks, g_low, sh, bitVars, codecVars>>

\* ------------------------------------------------- PS2HostApplet.interact
\* host_pc 0: write f4, 1: read(1), 2: write ea, 3: read(4), 4: write eb,
\* 5: read(1), 6: the final read() loop
HostReadLen == <<1, 4, 1>>

HostWrite ==
    /\ host_pc \in {0, 2, 4}
    /\ out_fifo' = Append(out_fifo, Commands[(host_pc \div 2) + 1])
    /\ host_need' = HostReadLen[(host_pc \div 2) + 1]
    /\ host_pc' = host_pc + 1
    /\ g_naks' = 0
    /\ UNCHANGED <<coreVars, devVars, in_fifo>>
    /\ UNCHANGED <<g_ci1, g_ci2, g_ci3, g_we, g_byte, g_conf, g_quiet, g_stalled, g_dropped,
                   g_re, g_txwe, g_ackseen, g_low, sh, logVars, bitVars, codecVars>>

HostRead ==
    /\ host_pc \in {1, 3, 5, 6}
    /\ Len(in_fifo) > 0
    /\ in_fifo' = Tail(in_fifo)
    /\ IF host_pc = 6
       THEN UNCHANGED hostVars
       ELSE /\ host_need' = host_need - 1
            /\ host_pc' = IF host_need = 1 THEN host_pc + 1 ELSE host_pc
    /\ UNCHANGED <<coreVars, devVars, out_fifo, obsVars, logVars, codecVars>>

\* ------------------------------------------- check_frame / prepare_frame
\* prepare_frame loads a frame register with the byte cd_d, check_frame
\* judges the register; a corruption inverts one of the three framing bits
FramingBits == {0, 9, 10}

CodecPrepare ==
    /\ cd_pc = "idle"
    /\ cd_frame' = prepare_frame(cd_frame, cd_d)
    /\ cd_ok' = check_frame(cd_frame')
    /\ cd_pc' = "prepared"
    /\ UNCHANGED <<cd_d, coreVars, in_fifo, out_fifo, hostVars, devVars, obsVars, logVars>>

CodecCorrupt ==
    /\ cd_pc = "prepared"
    /\ \E k \in FramingBits : cd_frame' = DevFlip(cd_frame, k)
    /\ cd_ok' = check_frame(cd_frame')
    /\ cd_pc' = "corrupted"
    /\ UNCHANGED <<cd_d, coreVars, in_fifo, out_fifo, hostVars, devVars, obsVars, logVars>>

vars == <<coreVars, in_fifo, out_fifo, hostVars, devVars, obsVars, logVars, codecVars>>

Reset ==
    /\ clock_m = 1 /\ data_m = 1 /\ clock_i = 1 /\ data_i = 1
    /\ clock_o = 1 /\ data_o = 1
    /\ clock_s = 1 /\ clock_r = 1 /\ sample = 0 /\ setup = 0
    /\ request_cyc \in 1..MaxRequestCyc
    /\ rx_state = "IDLE" /\ rx_frame = 0 /\ rx_bitno = 0
    /\ tx_state = "IDLE" /\ tx_timer = 0 /\ tx_frame = 0 /\ tx_bitno = 0
    /\ in_we = 0 /\ in_din = 0 /\ out_re = 0
    /\ in_fifo = <<>> /\ out_fifo = <<>>
    /\ host_pc = 0 /\ host_need = 0
    /\ dev_clock = 1 /\ dev_script = NakScript /\ dev_pos = DevIdlePos
    /\ dev_hold = MinHold /\ dev_count = 0
    /\ g_ci1 = 1 /\ g_ci2 = 1 /\ g_ci3 = 1
    /\ g_we = 0 /\ g_byte = 0 /\ g_conf = FALSE /\ g_stalled = FALSE
    /\ g_quiet = SettleTicks
    /\ g_respok = FALSE /\ g_resp = <<>> /\ g_got = <<>>
    /\ g_dropped = FALSE
    /\ g_re = 0 /\ g_txwe = 0 /\ g_ackseen = FALSE /\ g_naks = 0 /\ g_low = 0
    /\ sh = tx_keep(TxReset)
    /\ g_rxn = 0 /\ g_rxbits = 0 /\ g_txn = 0 /\ g_txbits = 0 /\ g_latch = 0
    /\ g_high = TRUE
    /\ cd_pc = "idle" /\ cd_frame = 0 /\ cd_ok = FALSE

Init == Reset /\ cd_d = 0

\* the codec is given any byte
InitCodec == Reset /\ cd_d \in 0..MaxData

Next ==
    \/ TickHold \/ TickStart \/ TickListen \/ TickFall \/ TickRise \/ TickAbort
    \/ HostWrite \/ HostRead

Spec == Init /\ [][Next]_vars

NextResp ==
    \/ RespHold \/ RespListen \/ RespStart \/ RespFall \/ RespRise \/ RespAbort
    \/ HostWrite \/ HostRead

SpecResp == Init /\ [][NextResp]_vars

NextBus == BusTick

SpecBus == Init /\ [][NextBus]_vars

NextCodec == CodecPrepare \/ CodecCorrupt

SpecCodec == InitCodec /\ [][NextCodec]_vars

\* ================================================================== claims
\* a step of the host program; every other step is a clock edge
HostStep  == Len(in_fifo') < Len(in_fifo) \/ Len(out_fifo') > Len(out_fifo)
ClockEdge == ~HostStep

\* C1: at most one of rx_fsm and tx_fsm is outside IDLE after every step, and
\* each leaves IDLE only in a tick in which the other is in IDLE.
C1_MutualExclusion ==
    [][/\ (rx_state' = "IDLE" \/ tx_state' = "IDLE")
       /\ (rx_state = "IDLE" /\ rx_state' # "IDLE" => tx_state = "IDLE")
       /\ (tx_state = "IDLE" /\ tx_state' # "IDLE" => rx_state = "IDLE")]_vars
\* a receive is under way while a byte waits in out_fifo on a high clock
C1_Witness ==
    /\ rx_state = "BIT" /\ rx_bitno = 5 /\ tx_state = "IDLE"
    /\ Len(out_fifo) > 0 /\ clock_i = 1

\* C2: a well-formed frame for byte b, clocked in by the peripheral from a tick
\* in which both FSMs are in IDLE, with tx_fsm staying in IDLE and in_fifo
\* having space, makes the core write in_fifo exactly once, and the value is b.
C2_ReceiveWellFormed ==
    (g_conf /\ dev_script \in GoodFrames) =>
        /\ g_we <= 1
        /\ g_we = 1 => g_byte = frame_data(dev_script)
        /\ (dev_pos = DevIdlePos /\ (rx_state = "IDLE" \/ g_quiet = SettleTicks)) => g_we = 1
C2_Witness ==
    /\ g_conf /\ dev_script \in GoodFrames /\ dev_pos = DevIdlePos
    /\ rx_state = "IDLE" /\ g_we = 1 /\ g_byte = frame_data(dev_script)

\* C3: in a transmit whose ACK state sees the sample pulse with data_i low,
\* out_fifo.re is asserted in exactly one tick, in_fifo.we in none, and the
\* transmit ends through IDLE-WAIT in IDLE.
C3_TransmitAck ==
    /\ g_ackseen => (g_re = 1 /\ g_txwe = 0 /\ tx_state \in {"IDLE-WAIT", "IDLE"})
    /\ tx_state \in {"REQUEST", "BIT", "ACK"} => (g_re = 0 /\ g_txwe = 0)
C3_Witness ==
    /\ g_ackseen /\ tx_state = "IDLE" /\ g_re = 1
    /\ dev_script = AckScript /\ dev_pos = DevIdlePos

\* C4: clock_o is 0 for exactly request_cyc ticks, and it returns to 1 in the
\* tick in which data_o becomes 0 and tx_fsm enters BIT.
C4_RequestTiming ==
    [][ClockEdge =>
        /\ (clock_o = 1 /\ clock_o' = 0) => (tx_state = "IDLE" /\ tx_state' = "REQUEST")
        /\ (clock_o = 0 /\ clock_o' = 0) => g_low < request_cyc
        /\ (clock_o = 0 /\ clock_o' = 1) =>
               (g_low = request_cyc /\ data_o = 1 /\ data_o' = 0 /\ tx_state' = "BIT")
        /\ (tx_state = "REQUEST" /\ tx_state' # "REQUEST") =>
               (clock_o = 0 /\ clock_o' = 1)]_vars
C4_Witness ==
    /\ tx_state = "BIT" /\ tx_bitno = 0 /\ clock_o = 1 /\ data_o = 0
    /\ request_cyc = MaxRequestCyc

\* C5: a frame that fails check_frame (the peripheral's frames with a wrong
\* start, parity or stop bit among them) is never written to in_fifo; rx_fsm
\* goes from FRAME to IDLE-WAIT in the next tick and to IDLE once clock_i is
\* high, and a well-formed frame that follows is received as in C2.
C5_FramingError ==
    /\ [][ClockEdge =>
            /\ (rx_state = "FRAME" /\ ~check_frame(rx_frame)) =>
                   (in_we' = 0 /\ in_fifo' = in_fifo /\ rx_state' = "IDLE-WAIT")
            /\ (rx_state = "IDLE-WAIT" /\ clock_i = 1) => rx_state' = "IDLE"]_vars
    /\ []((g_conf /\ dev_script \in BadFrames) => g_we = 0)
    /\ []((g_dropped /\ g_conf /\ dev_script \in GoodFrames
             /\ dev_pos = DevIdlePos /\ rx_state = "IDLE")
          => (g_we = 1 /\ g_byte = frame_data(dev_script)))
C5_Witness ==
    /\ g_dropped /\ g_conf /\ dev_script \in GoodFrames
    /\ dev_pos = DevIdlePos /\ rx_state = "IDLE" /\ g_we = 1

C9_TransmitIdempotent ==
    /\ sh.state = tx_state /\ sh.clock_o = clock_o /\ sh.data_o = data_o
    /\ sh.re = out_re
\* the same byte has been transmitted, and rejected, twice
C9_Witness == g_naks = 2 /\ tx_state = "IDLE"

\* C8: after an acknowledged command, while the peripheral answers with
\* well-formed frames on an idle bus and in_fifo has space, the bytes written
\* to in_fifo are the response bytes in the order sent, none lost, repeated
\* or added (nothing is written during the transmit itself), and all of them
\* once the peripheral has been quiet SettleTicks.
C8_ResponseOrder ==
    g_respok =>
        /\ IsPrefix(g_got, g_resp) /\ g_txwe = 0
        /\ (dev_pos = DevIdlePos /\ g_quiet = SettleTicks) => g_got = g_resp
C8_Witness ==
    /\ g_respok /\ Len(g_resp) = MaxResp /\ g_got = g_resp
    /\ g_resp[1] # g_resp[2] /\ dev_pos = DevIdlePos /\ g_quiet = SettleTicks

\* C10: sample is 1 exactly two ticks after each tick in which clock_i went
\* from 1 to 0, setup exactly two ticks after each in which it went from 0 to 1; neither
\* is 1 in two ticks running, and they are never 1 together.
C10_EdgePulses ==
    /\ [](/\ sample = And(g_ci3, Not(g_ci2))
          /\ setup = And(Not(g_ci3), g_ci2)
          /\ ~(sample = 1 /\ setup = 1))
    /\ [][~(sample = 1 /\ sample' = 1) /\ ~(setup = 1 /\ setup' = 1)]_vars
\* a one-tick low glitch of clock_i has produced its sample pulse
C10_Witness == sample = 1 /\ g_ci3 = 1 /\ g_ci2 = 0 /\ g_ci1 = 1 /\ clock_i = 0
\* C11: the frame prepare_frame builds for a byte d has start 0, data d, stop 1
\* and a parity bit that makes the ones among data and parity odd in number;
\* check_frame accepts it, and rejects it with its start, parity or stop bit
\* inverted.
C11_CodecRoundTrip ==
    /\ cd_pc = "prepared" =>
          /\ frame_start(cd_frame) = 0 /\ frame_data(cd_frame) = cd_d
          /\ frame_stop(cd_frame) = 1
          /\ frame_parity(cd_frame) = Not(reduce_xor(cd_d))
          /\ Cardinality({k \in 1..9 : Bit(cd_frame, k) = 1}) % 2 = 1
          /\ cd_frame < 2048
          /\ cd_ok
    /\ cd_pc = "corrupted" =>
          /\ frame_data(cd_frame) = cd_d
          /\ ~cd_ok
\* the frame of 0xFF, eight ones in the data, with its parity bit inverted
C11_Witness == cd_pc = "corrupted" /\ cd_d = MaxData /\ frame_parity(cd_frame) = 0 /\ ~cd_ok

\* C12: a byte is written to in_fifo only after the host has asked for a
\* response, that is, after it has written a command.
C12_QueuedOnlyOnRequest == in_we = 1 => host_pc > 0

\* C13: rx_fsm stays in BIT until its 11th sample pulse and is in FRAME in the
\* next tick; the frame register then holds the k-th sampled data_i as bit k
\* (start, data bits 0..7, parity, stop) and nothing of an earlier frame, so
\* a frame the peripheral clocked in on an idle bus is in it bit for bit.
C13_BitAssembly ==
    /\ [][ClockEdge =>
            /\ (rx_state = "BIT" /\ rx_state' # "BIT") =>
                   (sample = 1 /\ g_rxn = 10 /\ rx_state' = "FRAME")
            /\ (rx_state = "BIT" /\ sample = 1 /\ g_rxn = 10) => rx_state' = "FRAME"]_vars
    /\ [](rx_state = "FRAME" =>
            /\ g_rxn = 11 /\ rx_frame = g_rxbits
            /\ g_conf => rx_frame = dev_script)
\* the second frame of a run, after one that failed the check, is assembled
C13_Witness ==
    /\ rx_state = "FRAME" /\ g_dropped /\ dev_count = 2 /\ g_conf
    /\ dev_script \in GoodFrames /\ frame_data(rx_frame) = 171

\* C14: for the byte d latched from out_fifo, the values data_o takes on the
\* setup pulses tx_fsm sees in BIT are, in order, 0, bits 0..7 of d, the odd
\* parity of d, 1; tx_fsm leaves BIT on the 11th setup pulse, to ACK, and
\* data_o changes in BIT only in the tick after a setup pulse.
C14_TransmitBitOrder ==
    /\ [][ClockEdge =>
            /\ (tx_state = "BIT" /\ tx_state' # "BIT") =>
                   (setup = 1 /\ g_txn = 10 /\ tx_state' = "ACK")
            /\ (tx_state = "BIT" /\ setup = 1 /\ g_txn = 10) => tx_state' = "ACK"
            /\ (tx_state = "BIT" /\ data_o' # data_o) => setup = 1]_vars
    /\ [](tx_state = "ACK" =>
            /\ g_txn = 11
            /\ g_txbits = raw_bits(0, g_latch, Not(reduce_xor(g_latch)), 1)
            /\ g_latch = fifo_dout(out_fifo))
\* the second command of the host program, 0xEA, has been shifted out
C14_Witness == tx_state = "ACK" /\ g_latch = 234 /\ g_txn = 11 /\ data_o = 1

\* C15: each FSM leaves IDLE-WAIT only in a tick with clock_i high, and for
\* IDLE; rx_fsm enters BIT only from IDLE, and only after clock_i was high in
\* a tick since the last transaction ended (the 11th receive sample or the
\* acknowledge sample), so the low clock that ended it starts no receive.
C15_NoRetrigger ==
    [][ClockEdge =>
        /\ (rx_state = "IDLE-WAIT" /\ rx_state' # "IDLE-WAIT") =>
               (clock_i = 1 /\ rx_state' = "IDLE")
        /\ (tx_state = "IDLE-WAIT" /\ tx_state' # "IDLE-WAIT") =>
               (clock_i = 1 /\ tx_state' = "IDLE")
        /\ (rx_state # "BIT" /\ rx_state' = "BIT") =>
               (rx_state = "IDLE" /\ clock_i = 0 /\ g_high)]_vars
\* rx_fsm waits in IDLE-WAIT on the still low clock of the frame it received
C15_Witness ==
    /\ rx_state = "IDLE-WAIT" /\ clock_i = 0 /\ ~g_high /\ tx_state = "IDLE"
    /\ g_we = 1

\* no clock edge is on its way through the synchronizer and the edge detector
BusSettled ==
    /\ pad_i(clock_o, dev_clock) = clock_m /\ clock_m = clock_i
    /\ clock_i = clock_s /\ clock_s = clock_r /\ sample = 0 /\ setup = 0
TxParked == tx_state \in {"BIT", "ACK"} /\ BusSettled

\* C16: in BIT without a setup pulse, and in ACK without a sample pulse,
\* tx_fsm stays where it is, out_fifo.re is not asserted, out_fifo keeps its
\* bytes and rx_fsm stays in IDLE; and once no edge is under way none arises
\* unless the peripheral moves the clock, so a peripheral that stops clocking
\* leaves tx_fsm in BIT or ACK for good.
C16_NoTransmitTimeout ==
    [][ClockEdge =>
        /\ ((tx_state = "BIT" /\ setup = 0) \/ (tx_state = "ACK" /\ sample = 0)) =>
               /\ tx_state' = tx_state /\ out_re' = 0 /\ out_fifo' = out_fifo
               /\ rx_state = "IDLE" /\ rx_state' = "IDLE"
        /\ (TxParked /\ dev_clock' = dev_clock) =>
               (TxParked' /\ tx_state' = tx_state /\ tx_bitno' = tx_bitno)]_vars
\* the peripheral has stopped clocking after five bits of the command
C16_Witness ==
    /\ tx_state = "BIT" /\ g_txn = 5 /\ BusSettled /\ dev_hold = MinHold
    /\ dev_pos < DevIdlePos /\ Len(out_fifo) > 0

\* C17: from the tick tx_fsm latches out_fifo.dout at the end of REQUEST to
\* the tick it asserts out_fifo.re, the head of out_fifo is the latched byte
\* (the host only appends); the byte re removes is that byte, the one whose
\* frame was shifted out in BIT.
C17_CommittedIsTransmitted ==
    /\ [](tx_state \in {"BIT", "ACK"} =>
             (Len(out_fifo) > 0 /\ Head(out_fifo) = g_latch))
    /\ [][(ClockEdge /\ out_re' = 1) =>
             /\ Len(out_fifo) > 0 /\ Head(out_fifo) = g_latch
             /\ out_fifo' = Tail(out_fifo)
             /\ frame_data(g_txbits) = g_latch]_vars
\* the second command of the host program, 0xEA, is taken out of out_fifo
C17_Witness == out_re = 1 /\ g_latch = 234 /\ frame_data(g_txbits) = 234 /\ host_pc = 3

\* C18: out_fifo.re is asserted only in a tick in which tx_fsm is in ACK, the
\* sample pulse is 1 and data_i is 0, and out_fifo is readable in that tick;
\* tx_fsm is outside IDLE only while out_fifo holds a byte.
C18_NoPopFromEmpty ==
    /\ [][(ClockEdge /\ out_re' = 1) =>
             /\ tx_state = "ACK" /\ sample = 1 /\ data_i = 0
             /\ fifo_readable(out_fifo)]_vars
    /\ [](tx_state \in {"REQUEST", "BIT", "ACK"} => fifo_readable(out_fifo))
\* the only byte of out_fifo has just been taken out
C18_Witness == out_re = 1 /\ Len(out_fifo) = 0 /\ tx_state = "IDLE-WAIT" /\ g_latch = 244

\* C19: whenever tx_fsm is in IDLE, and so whenever rx_fsm is outside IDLE,
\* clock_o and data_o are both 1; clock_o is 0 only with tx_fsm in REQUEST.
C19_BusReleased ==
    /\ tx_state = "IDLE" => (clock_o = 1 /\ data_o = 1)
    /\ rx_state # "IDLE" => (clock_o = 1 /\ data_o = 1)
    /\ clock_o = 0 => tx_state = "REQUEST"
\* a frame is received after a command was transmitted and acknowledged
C19_Witness ==
    /\ rx_state = "BIT" /\ rx_bitno = 3 /\ g_re = 1 /\ tx_state = "IDLE"
    /\ clock_o = 1 /\ data_o = 1

\* C20: rx_bitno and tx_bitno are in 0..10, and each is 0 whenever its FSM is
\* not in BIT.
C20_BitCounters ==
    /\ rx_bitno \in 0..10 /\ tx_bitno \in 0..10
    /\ rx_state # "BIT" => rx_bitno = 0
    /\ tx_state # "BIT" => tx_bitno = 0
\* the last bit of a second transmit of the same byte is about to be sent
C20_Witness == tx_state = "BIT" /\ tx_bitno = 10 /\ g_naks = 1 /\ rx_bitno = 0
====
